---- MODULE Spec2Model ----
(***************************************************************************)
(* Model of src/exchange.py: a WebSocket server that answers the command   *)
(* "exchange [days]" with the PrivatBank rates of the last `days` days.    *)
(*                                                                         *)
(* Text is modelled at two levels.  An inbound message is a sequence of    *)
(* one-character strings, so that str.startswith, str.split and int() are  *)
(* computed character by character.  Everything the server writes (the     *)
(* response, the audit message) is a TLA+ string built with \o, the way    *)
(* strftime, the f-strings and json.dumps build it.                        *)
(*                                                                         *)
(* Environment assumptions: the client keeps the connection open (so       *)
(* websocket.send does not raise) and the log file can be opened and       *)
(* written (so Logger.log does not raise).                                 *)
(***************************************************************************)
EXTENDS Integers, Sequences, FiniteSets, TLC

VARIABLES
    today,      \* what datetime.date.today() returns
    pc,         \* pc[c]: where connection c's handle_client coroutine is suspended
    delivered,  \* how many messages the clients have delivered, over all connections
    days,       \* days[c]: local `days` of the running handle_exchange
    tasks,      \* tasks[c]: the fetch_rates tasks handed to asyncio.gather
    results,    \* results[c]: local `results` of the running handle_exchange
    response,   \* response[c]: local `response` of the running handle_exchange
    out,        \* out[c]: everything sent on connection c, in order
    logfile,    \* chat_log.txt: the lines appended so far
    call,       \* call[c]: bookkeeping of the latest message of connection c
    probe,      \* one direct call of fetch_rates (specification FetchSpec)
    unread      \* unread[c]: messages sent on connection c after its loop ended

vars == <<today, pc, delivered, days, tasks, results, response, out, logfile, call, probe,
          unread>>

(***************************************************************************)
(* Bounds of the model.                                                    *)
(***************************************************************************)
MaxMsgs == 2         \* messages delivered in total, over all connections

\* the connections the server holds open
Conns == {1, 2}

(***************************************************************************)
(* Characters and strings.                                                 *)
(***************************************************************************)
DigitChars == <<"0", "1", "2", "3", "4", "5", "6", "7", "8", "9">>

IsDigit(ch) == \E i \in 1..10 : DigitChars[i] = ch

DigitVal(ch) == (CHOOSE i \in 1..10 : DigitChars[i] = ch) - 1

\* str.isspace for the characters the messages use
IsSpace(ch) == ch \in {" ", "\t", "\n"}

RECURSIVE NatToStr(_)
NatToStr(n) ==
    IF n < 10 THEN DigitChars[n + 1]
    ELSE NatToStr(n \div 10) \o DigitChars[(n % 10) + 1]

\* str(n) / f"{n}" of a Python int
IntToStr(n) == IF n < 0 THEN "-" \o NatToStr(-n) ELSE NatToStr(n)

\* the characters of str(n), as a message carries them
RECURSIVE NatToChars(_)
NatToChars(n) ==
    IF n < 10 THEN <<DigitChars[n + 1]>>
    ELSE NatToChars(n \div 10) \o <<DigitChars[(n % 10) + 1]>>

IntToChars(n) == IF n < 0 THEN <<"-">> \o NatToChars(-n) ELSE NatToChars(n)

\* zero-padded field of strftime: %d and %m (width 2), %Y (width 4)
ZeroPad(n, width) ==
    LET s == NatToStr(n)
        zeros == <<"", "0", "00", "000">>
    IN  IF Len(s) >= width THEN s ELSE zeros[width - Len(s) + 1] \o s

\* message.startswith(prefix)
startswith(message, prefix) ==
    /\ Len(message) >= Len(prefix)
    /\ SubSeq(message, 1, Len(prefix)) = prefix

\* message.split(): the maximal runs of non-whitespace characters
RECURSIVE SplitFrom(_, _, _, _)
SplitFrom(message, i, word, parts) ==
    IF i > Len(message)
    THEN IF word = <<>> THEN parts ELSE Append(parts, word)
    ELSE IF IsSpace(message[i])
         THEN SplitFrom(message, i + 1, <<>>,
                        IF word = <<>> THEN parts ELSE Append(parts, word))
         ELSE SplitFrom(message, i + 1, Append(word, message[i]), parts)

split(message) == SplitFrom(message, 1, <<>>, <<>>)

\* value of a run of decimal digits with single underscores inside it
RECURSIVE DigitsValue(_, _, _)
DigitsValue(chars, i, acc) ==
    IF i > Len(chars) THEN acc
    ELSE IF chars[i] = "_" THEN DigitsValue(chars, i + 1, acc)
    ELSE DigitsValue(chars, i + 1, 10 * acc + DigitVal(chars[i]))

\* the digit part int() accepts: digits, with "_" only between two digits
IsDigitRun(chars) ==
    /\ Len(chars) > 0
    /\ \A i \in 1..Len(chars) : IsDigit(chars[i]) \/ chars[i] = "_"
    /\ IsDigit(chars[1])
    /\ IsDigit(chars[Len(chars)])
    /\ \A i \in 1..(Len(chars) - 1) : ~(chars[i] = "_" /\ chars[i + 1] = "_")

\* int(token): [ok |-> TRUE, val |-> n], or ok = FALSE where int raises ValueError
int(token) ==
    LET signed == Len(token) > 0 /\ token[1] \in {"+", "-"}
        body == IF signed THEN Tail(token) ELSE token
    IN  IF IsDigitRun(body)
        THEN [ok |-> TRUE,
              val |-> IF signed /\ token[1] = "-"
                      THEN 0 - DigitsValue(body, 1, 0)
                      ELSE DigitsValue(body, 1, 0)]
        ELSE [ok |-> FALSE, val |-> 0]

(***************************************************************************)
(* Calendar dates: datetime.date, timedelta subtraction and strftime.      *)
(***************************************************************************)
IsLeap(y) == (y % 4 = 0 /\ y % 100 # 0) \/ y % 400 = 0

DaysInMonth(y, m) ==
    IF m = 2 THEN (IF IsLeap(y) THEN 29 ELSE 28)
    ELSE IF m \in {4, 6, 9, 11} THEN 30 ELSE 31

PrevDay(date) ==
    IF date.d > 1 THEN [date EXCEPT !.d = date.d - 1]
    ELSE IF date.m > 1
         THEN [y |-> date.y, m |-> date.m - 1, d |-> DaysInMonth(date.y, date.m - 1)]
         ELSE [y |-> date.y - 1, m |-> 12, d |-> 31]

\* date - datetime.timedelta(days=i)
RECURSIVE MinusDays(_, _)
MinusDays(date, i) == IF i = 0 THEN date ELSE MinusDays(PrevDay(date), i - 1)

\* date.strftime("%d.%m.%Y")
strftime(date) ==
    ZeroPad(date.d, 2) \o "." \o ZeroPad(date.m, 2) \o "." \o ZeroPad(date.y, 4)

(***************************************************************************)
(* JSON values and Python dicts.  A dict is the sequence of its items in   *)
(* insertion order, which is the order json.dumps writes them in.          *)
(***************************************************************************)
Missing == [t |-> "missing", n |-> 0, s |-> ""]     \* the key is not in the object
Null == [t |-> "null", n |-> 0, s |-> ""]           \* JSON null, Python None
Num(n) == [t |-> "num", n |-> n, s |-> ""]
Str(s) == [t |-> "str", n |-> 0, s |-> s]

\* record.get(field): None when the key is absent
get(record, field) == IF record[field].t = "missing" THEN Null ELSE record[field]

\* faulty variant of InList: the filter of line 27 lets every currency through
InListAlways(value, list) == value.t = "str"

\* value in currencies, for a list of str
InList(value, list) == value.t = "str" /\ \E i \in 1..Len(list) : list[i] = value.s

HasKey(dict, k) == \E i \in 1..Len(dict) : dict[i].k = k

\* dict[k] = v: a present key keeps its place and takes the new value
DictSet(dict, k, v) ==
    IF HasKey(dict, k)
    THEN [i \in 1..Len(dict) |-> IF dict[i].k = k THEN [k |-> k, v |-> v] ELSE dict[i]]
    ELSE Append(dict, [k |-> k, v |-> v])

(***************************************************************************)
(* ExchangeRateFetcher.fetch_rates                                         *)
(***************************************************************************)
BASE_URL == "https://api.privatbank.ua/p24api/exchange_rates"

\* the url of line 17
RequestUrl(date) == BASE_URL \o "?date=" \o strftime(date)

\* What the upstream does with one GET: a transport fault (session.get raises),
\* or a status and a body; a body that is not JSON makes response.json() raise.
Fault == [kind |-> "fault", status |-> 0, json |-> FALSE, hasRates |-> FALSE,
          exchangeRate |-> <<>>]
Http(status, rates) == [kind |-> "http", status |-> status, json |-> TRUE,
                        hasRates |-> TRUE, exchangeRate |-> rates]
HttpNoRates(status) == [kind |-> "http", status |-> status, json |-> TRUE,
                        hasRates |-> FALSE, exchangeRate |-> <<>>]
HttpNotJson(status) == [kind |-> "http", status |-> status, json |-> FALSE,
                        hasRates |-> FALSE, exchangeRate |-> <<>>]

Rate(currency, sale, purchase) ==
    [currency |-> currency, saleRate |-> sale, purchaseRate |-> purchase]

\* a DailyResult: the one-key dict fetch_rates returns
ErrorResult(text) == [key |-> "error", isError |-> TRUE, text |-> text, rates |-> <<>>]
RatesResult(key, rates) == [key |-> key, isError |-> FALSE, text |-> "", rates |-> rates]

Return(value) == [kind |-> "return", value |-> value]
Raise == [kind |-> "raise", value |-> ErrorResult("")]

\* line 22: the result for a status other than 200
StatusError(status) == ErrorResult("HTTP Error " \o IntToStr(status))

\* lines 25-27: the dict comprehension over data.get("exchangeRate", [])
RECURSIVE BuildRates(_, _, _, _)
BuildRates(list, i, currencies, acc) ==
    IF i > Len(list) THEN acc
    ELSE LET rate == list[i]
         IN  IF InList(get(rate, "currency"), currencies)
             THEN BuildRates(list, i + 1, currencies,
                             DictSet(acc, rate.currency.s,
                                     [sale |-> get(rate, "saleRate"),
                                      purchase |-> get(rate, "purchaseRate")]))
             ELSE BuildRates(list, i + 1, currencies, acc)

\* faulty variant of fetch_rates: line 21 tests for an error status (>= 400)
\* instead of any status other than 200
fetch_rates_ok(date, currencies, answer) ==
    IF answer.kind = "fault" THEN Raise
    ELSE IF answer.status >= 400 THEN Return(StatusError(answer.status))
    ELSE IF ~answer.json THEN Raise
    ELSE Return(RatesResult(strftime(date),
             BuildRates(IF answer.hasRates THEN answer.exchangeRate ELSE <<>>,
                        1, currencies, <<>>)))

\* fetch_rates(date, currencies) when the upstream answers `answer`
fetch_rates(date, currencies, answer) ==
    LET formatted_date == strftime(date)
    IN  IF answer.kind = "fault" THEN Raise
        ELSE IF answer.status # 200 THEN Return(StatusError(answer.status))
        ELSE IF ~answer.json THEN Raise
        ELSE Return(RatesResult(formatted_date,
                 BuildRates(IF answer.hasRates THEN answer.exchangeRate ELSE <<>>,
                            1, currencies, <<>>)))

(***************************************************************************)
(* json.dumps(results, ensure_ascii=False, indent=2)                       *)
(***************************************************************************)
RECURSIVE Spaces(_)
Spaces(n) == IF n = 0 THEN "" ELSE " " \o Spaces(n - 1)

\* newline and indentation of nesting depth `level`
NewLine(level) == "\n" \o Spaces(2 * level)

Quoted(s) == "\"" \o s \o "\""

DumpValue(v) == IF v.t = "num" THEN IntToStr(v.n)
                ELSE IF v.t = "str" THEN Quoted(v.s) ELSE "null"

\* one currency's rates: a dict of two items, closed at depth `level`
DumpEntry(entry, level) ==
    "{" \o NewLine(level + 1) \o Quoted("sale") \o ": " \o DumpValue(entry.sale)
        \o "," \o NewLine(level + 1) \o Quoted("purchase") \o ": "
        \o DumpValue(entry.purchase)
        \o NewLine(level) \o "}"

\* the items of a rates dict from the i-th on, each after "," and a new line
RECURSIVE DumpRatesFrom(_, _, _)
DumpRatesFrom(rates, i, level) ==
    IF i > Len(rates) THEN ""
    ELSE (IF i > 1 THEN "," ELSE "") \o NewLine(level + 1)
         \o Quoted(rates[i].k) \o ": " \o DumpEntry(rates[i].v, level + 1)
         \o DumpRatesFrom(rates, i + 1, level)

DumpRates(rates, level) ==
    IF rates = <<>> THEN "{}"
    ELSE "{" \o DumpRatesFrom(rates, 1, level) \o NewLine(level) \o "}"

\* a per-day result: a dict of one item
DumpResult(r, level) ==
    "{" \o NewLine(level + 1) \o Quoted(r.key) \o ": "
        \o (IF r.isError THEN Quoted(r.text) ELSE DumpRates(r.rates, level + 1))
        \o NewLine(level) \o "}"

\* the items of the list from the i-th on, each after "," and a new line
RECURSIVE DumpResultsFrom(_, _)
DumpResultsFrom(list, i) ==
    IF i > Len(list) THEN ""
    ELSE (IF i > 1 THEN "," ELSE "") \o NewLine(1) \o DumpResult(list[i], 1)
         \o DumpResultsFrom(list, i + 1)

dumps(list) ==
    IF list = <<>> THEN "[]"
    ELSE "[" \o DumpResultsFrom(list, 1) \o NewLine(0) \o "]"

(***************************************************************************)
(* Logger.log                                                              *)
(***************************************************************************)
\* the text Logger.log writes at time `now`: f"{now} - {message}\n"
LogLine(now, message) == [now |-> now, text |-> " - " \o message \o "\n"]

\* faulty variant of Writer: the file is opened in mode "w", which empties it,
\* and the line is written at the writer's own offset 0
WriterTruncating(file, line) == <<line>>

\* lines 38-40: the file is opened in mode "a" and the whole line is handed to
\* the writer in one call; in append mode the write lands at the end of the
\* file in one piece, wherever other handles have written meanwhile.  Opening
\* and closing the file leave its content alone.
Writer(file, line) == Append(file, line)

(***************************************************************************)
(* WebSocketServer: the pure parts of handle_client and handle_exchange.   *)
(***************************************************************************)
EXCHANGE == <<"e", "x", "c", "h", "a", "n", "g", "e">>

\* faulty variant of IsExchange: the first token must be the command name
IsExchangeToken(message) ==
    split(message) # <<>> /\ split(message)[1] = EXCHANGE

\* faulty variant of IsExchange: leading whitespace is stripped before the test
RECURSIVE LStrip(_)
LStrip(message) ==
    IF message # <<>> /\ IsSpace(message[1]) THEN LStrip(Tail(message)) ELSE message

IsExchangeStripped(message) == startswith(LStrip(message), EXCHANGE)

\* line 52: the test that dispatches a message to handle_exchange
IsExchange(message) == startswith(message, EXCHANGE)

\* faulty variant of ParseDays: a second token that is not an integer counts
\* as the day count 0
ParseDaysLenient(message) ==
    LET parts == split(message)
    IN  IF Len(parts) > 1
        THEN IF int(parts[2]).ok THEN int(parts[2]) ELSE [ok |-> TRUE, val |-> 0]
        ELSE [ok |-> TRUE, val |-> 1]

\* faulty variant of ParseDays: the day count has no default, parts[1] is read
\* even when the message has one token
ParseDaysRequired(message) ==
    LET parts == split(message)
    IN  IF Len(parts) > 1 THEN int(parts[2]) ELSE [ok |-> FALSE, val |-> 0]

\* lines 57-58: days = int(parts[1]) if len(parts) > 1 else 1
ParseDays(message) ==
    LET parts == split(message)
    IN  IF Len(parts) > 1 THEN int(parts[2]) ELSE [ok |-> TRUE, val |-> 1]

\* line 59
CURRENCIES == <<"USD", "EUR">>

\* line 61: days < 1 or days > 10
MIN_DAYS == 1
MAX_DAYS == 10
\* faulty variant of OutOfRange: the lower limit is not tested
OutOfRangeUpperOnly(n) == n > MAX_DAYS

OutOfRange(n) == n < MIN_DAYS \/ n > MAX_DAYS

\* line 62; the source text is Ukrainian in Cyrillic letters, written here in
\* Latin letters
ERROR_TEXT == "Pomylka: kilkist dniv maie buty vid 1 do 10."

\* the date of the fetch at list index i (0-based) of line 68
FetchDate(day, i) == MinusDays(day, i)

\* faulty variant of FanOut: the window starts yesterday (range(1, days + 1))
FanOutOffByOne(day, n, currencies) ==
    [k \in 1..n |-> [date |-> FetchDate(day, k), currencies |-> currencies,
                     done |-> FALSE, answer |-> Fault, outcome |-> Raise]]

\* faulty variant of FanOut: one fetch too many (range(days + 1))
FanOutOneMore(day, n, currencies) ==
    [k \in 1..(n + 1) |-> [date |-> FetchDate(day, k - 1), currencies |-> currencies,
                           done |-> FALSE, answer |-> Fault, outcome |-> Raise]]

\* faulty variant of FanOut: the fetches are awaited one by one inside the loop,
\* so only the fetch of today is issued when the handler first waits
FanOutFirstOnly(day, n, currencies) ==
    [k \in 1..1 |-> [date |-> FetchDate(day, k - 1), currencies |-> currencies,
                     done |-> FALSE, answer |-> Fault, outcome |-> Raise]]

\* lines 68-70: one fetch per i in range(days), in that order.  The list is
\* built and handed to gather, which schedules every fetch, before the handler
\* is suspended for the first time; no fetch can end before then.
FanOut(day, n, currencies) ==
    [k \in 1..n |-> [date |-> FetchDate(day, k - 1), currencies |-> currencies,
                     done |-> FALSE, answer |-> Fault, outcome |-> Raise]]

Pending(ts) == {k \in 1..Len(ts) : ~ts[k].done}
\* faulty variant of Raised: an HTTP error result is raised like an exception
RaisedOrHttpError(ts) ==
    {k \in 1..Len(ts) : ts[k].done /\ (ts[k].outcome.kind = "raise"
                                        \/ ts[k].outcome.value.isError)}

\* faulty variant of Raised: exceptions are handed back as results
\* (gather with return_exceptions=True)
RaisedNever(ts) == {}

Raised(ts) == {k \in 1..Len(ts) : ts[k].done /\ ts[k].outcome.kind = "raise"}

\* faulty variant of Complete: results are collected in the order the fetches
\* end, the result of the task at index k landing in the first free place
CompleteInArrivalOrder(ts, k, answer) ==
    LET j == CHOOSE x \in 1..Len(ts) : ~ts[x].done /\ \A y \in 1..(x - 1) : ts[y].done
    IN  [ts EXCEPT ![j] = [date |-> ts[j].date, currencies |-> ts[j].currencies,
                           done |-> TRUE, answer |-> answer,
                           outcome |-> fetch_rates(ts[k].date, ts[k].currencies, answer)]]

\* the task at index k ends with the upstream's answer: its result is kept in
\* the task, where gather reads it
Complete(ts, k, answer) ==
    [ts EXCEPT ![k] = [date |-> ts[k].date, currencies |-> ts[k].currencies,
                       done |-> TRUE, answer |-> answer,
                       outcome |-> fetch_rates(ts[k].date, ts[k].currencies, answer)]]

\* line 70: what asyncio.gather returns once every task has returned
gather(ts) == [k \in 1..Len(ts) |-> ts[k].outcome.value]

\* faulty variant of AuditMessage: the day count is left out
AuditMessageWithoutDays(n, resp) == "exchange: " \o resp

\* line 74: the audit message of an answered command
AuditMessage(n, resp) == "exchange " \o IntToStr(n) \o ": " \o resp

(***************************************************************************)
(* The clients and the upstream.                                           *)
(***************************************************************************)
Chars(n) == IntToChars(n)

\* the day counts the clients ask for: both sides of both limits of line 61
DayArgs == {MIN_DAYS - 1, MIN_DAYS, MIN_DAYS + 1, MAX_DAYS + 1}
Cmd(arg) == EXCHANGE \o <<" ">> \o arg

Messages ==
    {EXCHANGE}                                            \* "exchange"
    \cup {Cmd(Chars(n)) : n \in DayArgs}                  \* "exchange 0", ..., "exchange 11"
    \cup {Cmd(<<"a", "b", "c">>)}                         \* "exchange abc"
    \cup {EXCHANGE \o <<"r", " ", "2">>}                  \* "exchanger 2"
    \cup {<<" ">> \o Cmd(<<"1">>)}                        \* " exchange 1"
    \cup {<<"h", "e", "l", "l", "o">>}                    \* "hello"

StartDates == {[y |-> 2024, m |-> 3, d |-> 1]}

SamplePayload ==
    <<Rate(Str("USD"), Num(41), Num(40)),
      Rate(Str("GBP"), Num(52), Num(51)),
      Rate(Str("EUR"), Num(45), Missing)>>

\* what the upstream may answer to a request of a running command
Answers == {Http(200, SamplePayload), HttpNoRates(404), Fault}

(***************************************************************************)
(* State machine.                                                          *)
(***************************************************************************)
NoCall == [msg |-> <<>>, state |-> "none", day |-> [y |-> 0, m |-> 0, d |-> 0],
           sent |-> <<>>, logged |-> <<>>, fetches |-> 0, reordered |-> FALSE,
           overlap |-> FALSE]

\* Logger.log is running for another connection than c
OtherLogging(c) == \E d \in Conns \ {c} : pc[d] \in {"log", "log_error"}

\* bookkeeping of a message just received
NewCall(message, state) == [NoCall EXCEPT !.msg = message, !.state = state]

NoProbe == [date |-> [y |-> 0, m |-> 0, d |-> 0], currencies |-> <<>>,
            answer |-> Fault, called |-> FALSE, outcome |-> Raise]

Init ==
    /\ today \in StartDates
    /\ pc = [c \in Conns |-> "recv"]
    /\ delivered = 0
    /\ days = [c \in Conns |-> 0]
    /\ tasks = [c \in Conns |-> <<>>]
    /\ results = [c \in Conns |-> <<>>]
    /\ response = [c \in Conns |-> ""]
    /\ out = [c \in Conns |-> <<>>]
    /\ logfile = <<>>
    /\ call = [c \in Conns |-> NoCall]
    /\ unread = [c \in Conns |-> <<>>]
    /\ probe = NoProbe

\* handle_client, lines 51-52: a message that is not dispatched
ignore_message(c) ==
    \E message \in Messages :
        /\ pc[c] = "recv"
        /\ delivered < MaxMsgs
        /\ ~IsExchange(message)
        /\ delivered' = delivered + 1
        /\ call' = [call EXCEPT ![c] = NewCall(message, "ignored")]
        /\ UNCHANGED <<today, pc, days, tasks, results, response, out, logfile, probe, unread>>

\* handle_client, line 51: the loop has been left by an exception, so a message
\* the client sends on this connection afterwards is never read
unread_message(c) ==
    \E message \in Messages :
        /\ pc[c] = "closed"
        /\ delivered < MaxMsgs
        /\ delivered' = delivered + 1
        /\ unread' = [unread EXCEPT ![c] = Append(@, message)]
        /\ UNCHANGED <<today, pc, days, tasks, results, response, out, logfile, call, probe>>

\* faulty variant of bad_argument: handle_client catches the exception and goes
\* on with the next message
bad_argument_caught(c) ==
    \E message \in Messages :
        /\ pc[c] = "recv"
        /\ delivered < MaxMsgs
        /\ IsExchange(message)
        /\ ~ParseDays(message).ok
        /\ delivered' = delivered + 1
        /\ call' = [call EXCEPT ![c] = NewCall(message, "raised")]
        /\ UNCHANGED <<today, pc, days, tasks, results, response, out, logfile, probe, unread>>

\* handle_exchange, line 58: int() raises ValueError; the exception leaves
\* handle_exchange and handle_client, which ends the connection's loop
bad_argument(c) ==
    \E message \in Messages :
        /\ pc[c] = "recv"
        /\ delivered < MaxMsgs
        /\ IsExchange(message)
        /\ ~ParseDays(message).ok
        /\ delivered' = delivered + 1
        /\ pc' = [pc EXCEPT ![c] = "closed"]
        /\ call' = [call EXCEPT ![c] = NewCall(message, "raised")]
        /\ UNCHANGED <<today, days, tasks, results, response, out, logfile, probe, unread>>

\* handle_exchange, lines 57-63: the day count is out of range; the handler is
\* suspended in websocket.send(response)
invalid_days_of(c, message) ==
        /\ pc[c] = "recv"
        /\ delivered < MaxMsgs
        /\ IsExchange(message)
        /\ ParseDays(message).ok
        /\ OutOfRange(ParseDays(message).val)
        /\ delivered' = delivered + 1
        /\ days' = [days EXCEPT ![c] = ParseDays(message).val]
        /\ response' = [response EXCEPT ![c] = ERROR_TEXT]
        /\ pc' = [pc EXCEPT ![c] = "send_error"]
        /\ call' = [call EXCEPT ![c] = NewCall(message, "running")]
        /\ UNCHANGED <<results, today, tasks, out, logfile, probe, unread>>

invalid_days(c) == \E message \in Messages : invalid_days_of(c, message)

\* handle_exchange, lines 57-70: a valid day count; the fetches are created and
\* handed to asyncio.gather, and the handler is suspended in the await
fan_out_of(c, message) ==
        /\ pc[c] = "recv"
        /\ delivered < MaxMsgs
        /\ IsExchange(message)
        /\ ParseDays(message).ok
        /\ ~OutOfRange(ParseDays(message).val)
        /\ delivered' = delivered + 1
        /\ days' = [days EXCEPT ![c] = ParseDays(message).val]
        /\ tasks' = [tasks EXCEPT ![c] = FanOut(today, ParseDays(message).val, CURRENCIES)]
        /\ pc' = [pc EXCEPT ![c] = "gather"]
        /\ call' = [call EXCEPT ![c] =
                      [NewCall(message, "running") EXCEPT
                          !.day = today,
                          !.fetches = Len(FanOut(today, ParseDays(message).val, CURRENCIES))]]
        /\ UNCHANGED <<today, results, response, out, logfile, probe, unread>>

\* faulty variant of fan_out: handle_client starts handle_exchange as a task of
\* its own and reads on, so a command is dispatched while the one before it is
\* still inside Logger.log
fan_out_not_awaited(c) ==
    \E message \in Messages :
        /\ pc[c] \in {"recv", "log"}
        /\ delivered < MaxMsgs
        /\ IsExchange(message)
        /\ ParseDays(message).ok
        /\ ~OutOfRange(ParseDays(message).val)
        /\ delivered' = delivered + 1
        /\ days' = [days EXCEPT ![c] = ParseDays(message).val]
        /\ tasks' = [tasks EXCEPT ![c] = FanOut(today, ParseDays(message).val, CURRENCIES)]
        /\ pc' = [pc EXCEPT ![c] = "gather"]
        /\ call' = [call EXCEPT ![c] =
                      [NewCall(message, "running") EXCEPT
                          !.day = today,
                          !.fetches = Len(FanOut(today, ParseDays(message).val, CURRENCIES))]]
        /\ UNCHANGED <<today, results, response, out, logfile, probe, unread>>

fan_out(c) == \E message \in Messages : fan_out_of(c, message)

\* fetch_rates, lines 16-28: one task gets the upstream's answer and ends
fetch_done_with(c, answer) ==
    \E k \in Pending(tasks[c]) :
        /\ tasks' = [tasks EXCEPT ![c] = Complete(tasks[c], k, answer)]
        /\ call' = [call EXCEPT ![c].reordered =
                      @ \/ \E j \in Pending(tasks[c]) : j < k]
        /\ UNCHANGED <<today, pc, delivered, days, results, response, out, logfile, probe, unread>>

fetch_done(c) == \E answer \in Answers : fetch_done_with(c, answer)

\* line 70: a task raised; gather raises it in the handler, the exception leaves
\* handle_exchange and handle_client.  The other tasks are not cancelled.
gather_raise(c) ==
    /\ pc[c] = "gather"
    /\ Raised(tasks[c]) # {}
    /\ pc' = [pc EXCEPT ![c] = "closed"]
    /\ call' = [call EXCEPT ![c].state = "raised"]
    /\ UNCHANGED <<today, delivered, days, tasks, results, response, out, logfile, probe, unread>>

\* faulty variant of gather_return: the handler goes on as soon as the first
\* fetch has returned (a wait for the first completed task)
gather_return_first_completed(c) ==
    /\ pc[c] = "gather"
    /\ \E k \in 1..Len(tasks[c]) : tasks[c][k].done
    /\ Raised(tasks[c]) = {}
    /\ results' = [results EXCEPT ![c] = gather(tasks[c])]
    /\ response' = [response EXCEPT ![c] = dumps(gather(tasks[c]))]
    /\ pc' = [pc EXCEPT ![c] = "send"]
    /\ UNCHANGED <<today, delivered, days, tasks, out, logfile, call, probe, unread>>

\* faulty variant of gather_return: the results are kept in a list of the
\* connection that is never emptied, so a response repeats the results of the
\* commands before it
gather_return_accumulating(c) ==
    /\ pc[c] = "gather"
    /\ Pending(tasks[c]) = {}
    /\ Raised(tasks[c]) = {}
    /\ results' = [results EXCEPT ![c] = @ \o gather(tasks[c])]
    /\ response' = [response EXCEPT ![c] = dumps(results[c] \o gather(tasks[c]))]
    /\ pc' = [pc EXCEPT ![c] = "send"]
    /\ UNCHANGED <<today, delivered, days, tasks, out, logfile, call, probe, unread>>

\* lines 70-73: every task returned; the results are serialized and the handler
\* is suspended in websocket.send(response)
gather_return(c) ==
    /\ pc[c] = "gather"
    /\ Pending(tasks[c]) = {}
    /\ Raised(tasks[c]) = {}
    /\ results' = [results EXCEPT ![c] = gather(tasks[c])]
    /\ response' = [response EXCEPT ![c] = dumps(gather(tasks[c]))]
    /\ pc' = [pc EXCEPT ![c] = "send"]
    /\ UNCHANGED <<today, delivered, days, tasks, out, logfile, call, probe, unread>>

\* line 63: the error text goes out; the handler enters logger.log and is
\* suspended there
send_error(c) ==
    /\ pc[c] = "send_error"
    /\ out' = [out EXCEPT ![c] = Append(@, response[c])]
    /\ call' = [call EXCEPT ![c].sent = Append(@, response[c])]
    /\ pc' = [pc EXCEPT ![c] = "log_error"]
    /\ UNCHANGED <<today, delivered, days, tasks, results, response, logfile, probe, unread>>

\* faulty variant of log_error: the error path returns without logging
log_error_forgotten(c) ==
    /\ pc[c] = "log_error"
    /\ call' = [call EXCEPT ![c].state = "returned"]
    /\ pc' = [pc EXCEPT ![c] = "recv"]
    /\ UNCHANGED <<today, delivered, days, tasks, results, response, out, logfile, probe, unread>>

\* lines 64-65: the error text is logged and handle_exchange returns
log_error(c) ==
    /\ pc[c] = "log_error"
    /\ logfile' = Writer(logfile, LogLine(today, response[c]))
    /\ call' = [call EXCEPT ![c].logged = Append(@, response[c]), ![c].state = "returned",
                            ![c].overlap = OtherLogging(c)]
    /\ pc' = [pc EXCEPT ![c] = "recv"]
    /\ UNCHANGED <<today, delivered, days, tasks, results, response, out, probe, unread>>

\* line 73: the response goes out; the handler enters logger.log and is
\* suspended there
send_response(c) ==
    /\ pc[c] = "send"
    /\ out' = [out EXCEPT ![c] = Append(@, response[c])]
    /\ call' = [call EXCEPT ![c].sent = Append(@, response[c])]
    /\ pc' = [pc EXCEPT ![c] = "log"]
    /\ UNCHANGED <<today, delivered, days, tasks, results, response, logfile, probe, unread>>

\* line 74: the command and its response are logged and handle_exchange returns
log_response(c) ==
    /\ pc[c] = "log"
    /\ logfile' = Writer(logfile, LogLine(today, AuditMessage(days[c], response[c])))
    /\ call' = [call EXCEPT ![c].logged = Append(@, AuditMessage(days[c], response[c])),
                            ![c].state = "returned",
                            ![c].overlap = OtherLogging(c)]
    /\ pc' = [pc EXCEPT ![c] = "recv"]
    /\ UNCHANGED <<today, delivered, days, tasks, results, response, out, probe, unread>>

Next ==
    \E c \in Conns :
        \/ ignore_message(c)
        \/ unread_message(c)
        \/ bad_argument(c)
        \/ invalid_days(c)
        \/ fan_out(c)
        \/ fetch_done(c)
        \/ gather_raise(c)
        \/ gather_return(c)
        \/ send_error(c)
        \/ log_error(c)
        \/ send_response(c)
        \/ log_response(c)

Spec == Init /\ [][Next]_vars

\* The event loop runs every callback that is ready: a handler whose await
\* can be resumed is resumed.  Nothing makes the upstream answer or a client
\* send, so fetch_done and the receiving steps are not under fairness; send
\* and Logger.log are taken to complete.
Resume(c) ==
    \/ gather_raise(c)
    \/ gather_return(c)
    \/ send_error(c)
    \/ log_error(c)
    \/ send_response(c)
    \/ log_response(c)

Fairness == \A c \in Conns : WF_vars(Resume(c))

FairSpec == Spec /\ Fairness

(***************************************************************************)
(* BurstSpec: every client asks for more than half of the days a command   *)
(* may ask for, or for one day too many, and the upstream answers every    *)
(* request with status 200.                                                *)
(***************************************************************************)
BurstArgs == {MAX_DAYS \div 2 + 1, MAX_DAYS + 1}
BurstMessages == {Cmd(Chars(n)) : n \in BurstArgs}
BurstAnswer == Http(200, SamplePayload)

burst_invalid_days(c) == \E message \in BurstMessages : invalid_days_of(c, message)
burst_fan_out(c) == \E message \in BurstMessages : fan_out_of(c, message)
burst_fetch_done(c) == fetch_done_with(c, BurstAnswer)

BurstNext ==
    \E c \in Conns :
        \/ burst_invalid_days(c)
        \/ burst_fan_out(c)
        \/ burst_fetch_done(c)
        \/ gather_return(c)
        \/ send_error(c)
        \/ log_error(c)
        \/ send_response(c)
        \/ log_response(c)

BurstSpec == Init /\ [][BurstNext]_vars

(***************************************************************************)
(* FetchSpec: fetch_rates called once, directly, on inputs drawn from the  *)
(* sets below.  No client is connected.                                    *)
(***************************************************************************)
ProbeDates ==
    {[y |-> 2024, m |-> 3, d |-> 1], [y |-> 2024, m |-> 2, d |-> 29],
     [y |-> 2025, m |-> 1, d |-> 1], [y |-> 2023, m |-> 12, d |-> 31]}

ProbeCurrencies == {<<"USD", "EUR">>, <<"USD">>, <<"GBP", "PLN">>, <<>>}

ProbePayloads ==
    {SamplePayload,
     <<>>,
     <<Rate(Str("GBP"), Num(52), Num(51)),
       Rate(Missing, Num(1), Num(2)),
       Rate(Str("USD"), Null, Num(40)),
       Rate(Str("USD"), Num(42), Missing)>>,
     <<Rate(Str("EUR"), Num(45), Num(44)),
       Rate(Str("PLN"), Missing, Missing)>>}

ProbeStatuses == {200, 201, 404, 500}

ProbeAnswers ==
    {Http(st, p) : st \in ProbeStatuses, p \in ProbePayloads}
    \cup {HttpNoRates(200), HttpNotJson(200), HttpNotJson(404), Fault}

FetchInit ==
    /\ today \in StartDates
    /\ pc = [c \in Conns |-> "recv"]
    /\ delivered = 0
    /\ days = [c \in Conns |-> 0]
    /\ tasks = [c \in Conns |-> <<>>]
    /\ results = [c \in Conns |-> <<>>]
    /\ response = [c \in Conns |-> ""]
    /\ out = [c \in Conns |-> <<>>]
    /\ logfile = <<>>
    /\ call = [c \in Conns |-> NoCall]
    /\ unread = [c \in Conns |-> <<>>]
    /\ probe \in [date : ProbeDates, currencies : ProbeCurrencies,
                  answer : ProbeAnswers, called : {FALSE}, outcome : {Raise}]

\* fetcher.fetch_rates(date, currencies) runs from its call to its return
call_fetch_rates ==
    /\ ~probe.called
    /\ probe' = [probe EXCEPT !.called = TRUE,
                              !.outcome = fetch_rates(probe.date, probe.currencies,
                                                      probe.answer)]
    /\ UNCHANGED <<today, pc, delivered, days, tasks, results, response, out,
                   logfile, call, unread>>

FetchNext == call_fetch_rates

FetchSpec == FetchInit /\ [][FetchNext]_vars

(***************************************************************************)
(* What the properties below expect, written out independently of the      *)
(* operators above.                                                        *)
(***************************************************************************)
\* a message begins with the eight letters of "exchange"
HasExchangePrefix(message) ==
    /\ Len(message) >= 8
    /\ message[1] = "e" /\ message[2] = "x" /\ message[3] = "c" /\ message[4] = "h"
    /\ message[5] = "a" /\ message[6] = "n" /\ message[7] = "g" /\ message[8] = "e"

\* the text of line 62, in the Latin letters of ERROR_TEXT
ValidationErrorText == "Pomylka: kilkist dniv maie buty vid 1 do 10."

\* 1 March 2024 and the days before it, as dd.mm.yyyy
DateKeysBack == <<"01.03.2024", "29.02.2024", "28.02.2024", "27.02.2024">>

\* the rates of SamplePayload for USD and EUR
SampleRates ==
    <<[k |-> "USD", v |-> [sale |-> Num(41), purchase |-> Num(40)]],
      [k |-> "EUR", v |-> [sale |-> Num(45), purchase |-> Null]]>>

\* the per-day result at list index i (1-based) for the upstream's answer
ExpectedSlot(i, answer) ==
    IF answer.kind = "http" /\ answer.status = 200
    THEN RatesResult(DateKeysBack[i], SampleRates)
    ELSE ErrorResult("HTTP Error 404")

\* Values the properties below look up in every state are tabulated once:
\* f @@ <<>> is the function f, held by TLC as an explicit table.

\* the texts "exchange -2", ..., "exchange 12", by day count
CmdOf == [n \in (0 - 2)..12 |-> Cmd(Chars(n))] @@ <<>>

\* the per-day results of today and yesterday
DaySlots ==
    {ErrorResult("HTTP Error 404")}
    \cup {RatesResult(DateKeysBack[i], SampleRates) : i \in 1..2}

\* json.dumps of every list of one or two of them
DumpsOfDaySlots ==
    [list \in UNION {[1..n -> DaySlots] : n \in 1..2} |-> dumps(list)] @@ <<>>

\* json.dumps(list, ensure_ascii=False, indent=2), looked up where it is tabulated
Serialized(list) ==
    IF list \in DOMAIN DumpsOfDaySlots THEN DumpsOfDaySlots[list] ELSE dumps(list)

\* the day counts 1..10 as they are written in an audit message
DayTexts == <<"1", "2", "3", "4", "5", "6", "7", "8", "9", "10">>

\* the responses tabulated in DumpsOfDaySlots
DumpsTabulated == {DumpsOfDaySlots[list] : list \in DOMAIN DumpsOfDaySlots}

\* the message of line 74 for every day count and tabulated response
AuditTexts ==
    [n \in 1..10 |->
        [r \in DumpsTabulated |-> "exchange " \o DayTexts[n] \o ": " \o r] @@ <<>>] @@ <<>>

\* the message handle_exchange logs for an n-day command answered with r
AuditText(n, r) ==
    IF r \in DumpsTabulated THEN AuditTexts[n][r]
    ELSE "exchange " \o DayTexts[n] \o ": " \o r

\* the log entry, after its timestamp, of every message tabulated above and of
\* the validation-error text
EntryTexts ==
    [m \in {ValidationErrorText}
              \cup {AuditTexts[n][r] : n \in 1..10, r \in DumpsTabulated} |->
        " - " \o m \o "\n"] @@ <<>>

\* the log entry, after its timestamp, that Logger.log writes for message m
EntryText(m) ==
    IF m \in DOMAIN EntryTexts THEN EntryTexts[m] ELSE " - " \o m \o "\n"

\* gather has returned for the command connection c is handling or handled last
HasResults(c) ==
    \/ pc[c] \in {"send", "log"}
    \/ call[c].state = "returned" /\ call[c].fetches > 0

\* the fetches of connection c's latest fan-out that got a status other than 200
HttpErrorSlots(c) ==
    {k \in 1..Len(tasks[c]) : tasks[c][k].done /\ tasks[c][k].answer.kind = "http"
                               /\ tasks[c][k].answer.status # 200}

\* the fetches of connection c's latest fan-out that ended in a transport fault
FaultSlots(c) ==
    {k \in 1..Len(tasks[c]) : tasks[c][k].done /\ tasks[c][k].answer.kind = "fault"}

TwoDaysOfRates ==
    "[\n  {\n    \"01.03.2024\": {\n      \"USD\": {\n        \"sale\": 41,\n        \"purchase\": 40\n      },\n      \"EUR\": {\n        \"sale\": 45,\n        \"purchase\": null\n      }\n    }\n  },\n  {\n    \"29.02.2024\": {\n      \"USD\": {\n        \"sale\": 41,\n        \"purchase\": 40\n      },\n      \"EUR\": {\n        \"sale\": 45,\n        \"purchase\": null\n      }\n    }\n  }\n]"

ErrorThenRates ==
    "[\n  {\n    \"error\": \"HTTP Error 404\"\n  },\n  {\n    \"29.02.2024\": {\n      \"USD\": {\n        \"sale\": 41,\n        \"purchase\": 40\n      },\n      \"EUR\": {\n        \"sale\": 45,\n        \"purchase\": null\n      }\n    }\n  }\n]"

(***************************************************************************)
(* Properties.                                                             *)
(***************************************************************************)

\* C1: once "exchange <n>" with n in 1..10 has been answered, the response is
\* the serialization of exactly n per-day results, and the result at index i
\* (from 0) is the one for today minus i days: it is keyed by that date, or it
\* is that day's HTTP-error entry.
C1_OneResultPerDay ==
    \A c \in Conns, n \in 1..10 :
        (call[c].sent # <<>> /\ call[c].msg = CmdOf[n]) =>
            /\ Len(results[c]) = n
            /\ call[c].sent = <<Serialized(results[c])>>
            /\ out[c][Len(out[c])] = Serialized(results[c])
            /\ \A i \in 1..n :
                  \/ results[c][i].isError
                  \/ results[c][i].key = DateKeysBack[i]

\* C1 witness: "exchange 2" answered on 1 March 2024 with two dated results
C1_Witness ==
    \E c \in Conns :
        /\ call[c].msg = Cmd(<<"2">>)
        /\ call[c].state = "returned"
        /\ out[c] = <<TwoDaysOfRates>>

\* C2: for "exchange <n>" with n < 1 or n > 10 no fetch is ever started, nothing
\* but the validation-error text is sent or logged, and when the handler has
\* returned the text has been sent on the connection and appended to the log.
C2_InvalidDaysRejected ==
    \A c \in Conns, n \in (0 - 2)..12 :
        ((n < 1 \/ n > 10) /\ call[c].msg = CmdOf[n]) =>
            /\ call[c].fetches = 0
            /\ call[c].state # "raised"
            /\ pc[c] \in {"send_error", "log_error", "recv"}
            /\ call[c].sent \in {<<>>, <<ValidationErrorText>>}
            /\ call[c].logged \in {<<>>, <<ValidationErrorText>>}
            /\ call[c].state = "returned" =>
                  /\ call[c].sent = <<ValidationErrorText>>
                  /\ call[c].logged = <<ValidationErrorText>>
                  /\ out[c][Len(out[c])] = ValidationErrorText
                  /\ \E i \in 1..Len(logfile) :
                        logfile[i].text = EntryText(ValidationErrorText)

\* C2 witness: "exchange 0" and "exchange 11" both rejected
C2_Witness ==
    \E c, d \in Conns :
        /\ call[c].msg = Cmd(<<"0">>) /\ call[c].state = "returned"
        /\ call[d].msg = Cmd(<<"1", "1">>) /\ call[d].state = "returned"
        /\ Len(logfile) = 2

\* C3: whatever the order in which the fetches of a command ended, the result
\* at index i of the gathered list is the result of the fetch issued for today
\* minus i days, built from the answer that fetch received.
C3_RequestOrder ==
    \A c \in Conns :
        HasResults(c) =>
            /\ Len(results[c]) = Len(tasks[c])
            /\ \A i \in 1..Len(tasks[c]) :
                  results[c][i] = ExpectedSlot(i, tasks[c][i].answer)

\* C3 witness: the fetch for yesterday ended before the fetch for today, with a
\* different result, and the response went out in request order
C3_Witness ==
    \E c \in Conns :
        /\ call[c].reordered
        /\ call[c].state = "returned"
        /\ Len(results[c]) = 2
        /\ call[c].sent = <<ErrorThenRates>>

\* C4 as stated: every invocation of handle_exchange that has ended, by a
\* return or by an exception, made exactly one response write and exactly one
\* audit append.
C4_ExactlyOneOnEveryPath ==
    \A c \in Conns :
        call[c].state \in {"returned", "raised"} =>
            Len(call[c].sent) = 1 /\ Len(call[c].logged) = 1

\* C4, amended: an invocation of handle_exchange never makes more than one
\* response write or more than one audit append, and never logs before it has
\* sent; one that returned made exactly one of each; one that ended in an
\* exception made none.
C4_ExactlyOneWhenReturned ==
    \A c \in Conns :
        /\ Len(call[c].sent) <= 1
        /\ Len(call[c].logged) <= Len(call[c].sent)
        /\ call[c].state = "returned" =>
              Len(call[c].sent) = 1 /\ Len(call[c].logged) = 1
        /\ call[c].state = "raised" =>
              call[c].sent = <<>> /\ call[c].logged = <<>>

\* C4 witness: one connection's handler returned after a validation error, the
\* other's after a fan-out, each with one write and one append
C4_Witness ==
    \E c, d \in Conns :
        /\ call[c].state = "returned" /\ call[c].fetches = 0
        /\ call[d].state = "returned" /\ call[d].fetches > 0
        /\ Len(out[c]) = 1 /\ Len(out[d]) = 1 /\ Len(logfile) = 2

\* the first whitespace-delimited token of the message is "exchange"
FirstTokenIsExchange(message) ==
    \E i \in 0..Len(message) :
        /\ \A j \in 1..i : message[j] \in {" ", "\t", "\n"}
        /\ Len(message) >= i + 8
        /\ HasExchangePrefix(SubSeq(message, i + 1, Len(message)))
        /\ (Len(message) = i + 8 \/ message[i + 9] \in {" ", "\t", "\n"})

\* C5 as stated: a message is processed as an exchange command exactly when
\* its first whitespace-delimited token is "exchange".
C5_FirstTokenDispatch ==
    \A c \in Conns :
        call[c].state # "none" =>
            (call[c].state # "ignored" <=> FirstTokenIsExchange(call[c].msg))

\* C5, amended: a message is processed as an exchange command exactly when it
\* starts with the characters "exchange"; every other message is ignored with
\* no response, no fetch and no log entry.
C5_PrefixDispatch ==
    \A c \in Conns :
        call[c].state # "none" =>
            /\ call[c].state # "ignored" <=> HasExchangePrefix(call[c].msg)
            /\ call[c].state = "ignored" =>
                  /\ call[c].sent = <<>>
                  /\ call[c].logged = <<>>
                  /\ call[c].fetches = 0

\* C5 witness: "exchanger 2" was answered as a two-day command, and
\* " exchange 1", whose first token is "exchange", was ignored
C5_Witness ==
    \E c, d \in Conns :
        /\ call[c].msg = EXCHANGE \o <<"r", " ", "2">>
        /\ call[c].state = "returned"
        /\ Len(results[c]) = 2
        /\ call[d].msg = <<" ">> \o Cmd(<<"1">>)
        /\ call[d].state = "ignored"

\* C6: the step that takes a message without the prefix "exchange" from a
\* connection changes neither any connection's output nor the log, starts no
\* fetch and leaves every handler where it was; and while such a message is the
\* connection's latest, nothing has been sent, fetched or logged for it.
C6_NonPrefixIgnored ==
    /\ [](\A c \in Conns :
            (call[c].state # "none" /\ ~HasExchangePrefix(call[c].msg)) =>
                /\ call[c].sent = <<>>
                /\ call[c].logged = <<>>
                /\ call[c].fetches = 0
                /\ pc[c] = "recv")
    /\ [][\A c \in Conns :
            (delivered' # delivered /\ call'[c] # call[c]
                /\ ~HasExchangePrefix(call'[c].msg)) =>
                (out' = out /\ logfile' = logfile /\ tasks' = tasks /\ pc' = pc)]_vars

\* C6 witness: after an answered command, "hello" arrived on the same
\* connection and left its output and the log as they were
C6_Witness ==
    \E c \in Conns :
        /\ call[c].msg = <<"h", "e", "l", "l", "o">>
        /\ call[c].state = "ignored"
        /\ Len(out[c]) = 1
        /\ Len(logfile) = 1
        /\ delivered = 2

\* the text fetch_rates is expected to return for a status
ExpectedStatusText(status) ==
    IF status = 201 THEN "HTTP Error 201"
    ELSE IF status = 404 THEN "HTTP Error 404"
    ELSE IF status = 500 THEN "HTTP Error 500"
    ELSE "?"

\* C7: when the upstream answers with a status s other than 200, whatever the
\* body, fetch_rates returns {"error": "HTTP Error s"} and raises nothing.
C7_StatusErrorIsReturned ==
    (probe.called /\ probe.answer.kind = "http" /\ probe.answer.status # 200) =>
        /\ probe.outcome.kind = "return"
        /\ probe.outcome.value.isError
        /\ probe.outcome.value.key = "error"
        /\ probe.outcome.value.text = ExpectedStatusText(probe.answer.status)
        /\ probe.outcome.value.rates = <<>>

\* C7 witness: a 404 whose body is not JSON came back as the error entry
C7_Witness ==
    /\ probe.called
    /\ probe.answer.status = 404
    /\ ~probe.answer.json
    /\ probe.outcome.kind = "return"
    /\ probe.outcome.value.text = "HTTP Error 404"

\* C8: in a command that fanned out and met no transport fault, a status other
\* than 200 on one day's fetch does not abort the command,
\* and when the handler has returned, that day's slot holds the error entry,
\* every other slot holds its own day's rates, and the response of length days
\* has been sent and audited.
C8_StatusErrorStaysInItsSlot ==
    \A c \in Conns :
        (call[c].fetches > 0 /\ HttpErrorSlots(c) # {} /\ FaultSlots(c) = {}) =>
            /\ pc[c] # "closed"
            /\ call[c].state # "raised"
            /\ call[c].state = "returned" =>
                  /\ Len(results[c]) = call[c].fetches
                  /\ \A k \in 1..Len(results[c]) :
                        results[c][k] =
                            IF k \in HttpErrorSlots(c)
                            THEN ErrorResult("HTTP Error 404")
                            ELSE RatesResult(DateKeysBack[k], SampleRates)
                  /\ out[c][Len(out[c])] = Serialized(results[c])
                  /\ \E i \in 1..Len(logfile) :
                        logfile[i].text =
                            EntryText(AuditText(call[c].fetches,
                                                Serialized(results[c])))

\* C8 witness: of two fetches the one for today got a 404 first, the one for
\* yesterday then returned its rates, and the response went out and was logged
C8_Witness ==
    \E c \in Conns :
        /\ call[c].state = "returned"
        /\ HttpErrorSlots(c) = {1}
        /\ ~call[c].reordered
        /\ Len(results[c]) = 2
        /\ ~results[c][2].isError
        /\ Len(logfile) = 1

\* C9: once a fetch of a command has ended in a transport fault, the handler
\* is waiting in gather or has been ended by the exception, and no response has
\* been sent and no audit entry written for that command, whatever the other
\* fetches returned.
C9_FaultAbortsCommand ==
    \A c \in Conns :
        FaultSlots(c) # {} =>
            /\ pc[c] \in {"gather", "closed"}
            /\ call[c].sent = <<>>
            /\ call[c].logged = <<>>

\* C9 witness: one fetch of two returned rates, the other failed; the handler
\* was ended and the connection and the log received nothing
C9_Witness ==
    \E c \in Conns :
        /\ pc[c] = "closed"
        /\ Len(tasks[c]) = 2
        /\ FaultSlots(c) = {2}
        /\ tasks[c][1].done
        /\ tasks[c][1].outcome.kind = "return"
        /\ out[c] = <<>>
        /\ logfile = <<>>

\* the currency codes of the payload of the probe's answer
PayloadCurrencies ==
    {probe.answer.exchangeRate[i].currency.s : i \in 1..Len(probe.answer.exchangeRate)}

\* C10: the rate mapping a successful fetch returns has only currency codes
\* that are in the requested list and in the payload; in particular, for the
\* handler's list USD, EUR no other code appears.
C10_OnlyRequestedCurrencies ==
    (probe.called /\ probe.outcome.kind = "return" /\ ~probe.outcome.value.isError) =>
        LET rates == probe.outcome.value.rates
            codes == {rates[i].k : i \in 1..Len(rates)}
        IN  /\ \A code \in codes :
                  /\ \E j \in 1..Len(probe.currencies) : probe.currencies[j] = code
                  /\ code \in PayloadCurrencies
            /\ probe.currencies = <<"USD", "EUR">> => codes \subseteq {"USD", "EUR"}
            /\ Len(rates) = Cardinality(codes)

\* C10 witness: the payload had USD, GBP and EUR, the request USD and EUR, and
\* the mapping came back with USD and EUR only
C10_Witness ==
    /\ probe.called
    /\ probe.currencies = <<"USD", "EUR">>
    /\ PayloadCurrencies = {"USD", "GBP", "EUR"}
    /\ probe.outcome.kind = "return"
    /\ probe.outcome.value.rates = SampleRates

\* the texts an audit entry for the sent response r may have
EntryTextsOf(r) ==
    IF r = ValidationErrorText
    THEN {EntryText(r)}
    ELSE {EntryText(AuditText(n, r)) : n \in 1..10}

\* EntryTextsOf, tabulated for the validation-error text and the tabulated responses
EntryTextSets ==
    [r \in {ValidationErrorText} \cup DumpsTabulated |-> EntryTextsOf(r)] @@ <<>>

EntryTextsFor(r) ==
    IF r \in DOMAIN EntryTextSets THEN EntryTextSets[r] ELSE EntryTextsOf(r)

\* 1 while connection c's handler is inside Logger.log, else 0
InLog(c) == IF pc[c] \in {"log", "log_error"} THEN 1 ELSE 0

\* the responses sent on connection c whose Logger.log call has ended
Audited(c) == Len(out[c]) - InLog(c)

\* the exchange commands on connection c that ended in an exception
Faulted(c) == IF pc[c] = "closed" THEN 1 ELSE 0

RECURSIVE TotalAudited(_)
TotalAudited(S) ==
    IF S = {} THEN 0
    ELSE LET c == CHOOSE x \in S : TRUE IN Audited(c) + TotalAudited(S \ {c})

RECURSIVE TotalFaulted(_)
TotalFaulted(S) ==
    IF S = {} THEN 0
    ELSE LET c == CHOOSE x \in S : TRUE IN Faulted(c) + TotalFaulted(S \ {c})

\* no handler is running: every command received so far has finished
AllFinished == \A c \in Conns : pc[c] \in {"recv", "closed"}

AskedDays(message) ==
    IF message = EXCHANGE THEN 1
    ELSE IF \E n \in 1..10 : message = CmdOf[n]
         THEN CHOOSE n \in 1..10 : message = CmdOf[n]
         ELSE 0

\* the number of fetches of connection c's latest fan-out that have ended
DoneCount(c) == Cardinality({k \in 1..Len(tasks[c]) : tasks[c][k].done})

\* C12: whenever the handler of a valid command waits in gather, or has got
\* past it, all its days fetches have been issued; and the list of fetches of
\* a connection changes only in two ways: a newly received command issues all
\* its fetches at once, none of them ended, or one fetch of the list ends.  So
\* no fetch is issued after a fetch of the same command has ended.
C12_AllIssuedBeforeWaiting ==
    /\ [](\A c \in Conns :
            (pc[c] \in {"gather", "send", "log"} /\ AskedDays(call[c].msg) > 0) =>
                /\ Len(tasks[c]) = AskedDays(call[c].msg)
                /\ call[c].fetches = AskedDays(call[c].msg))
    /\ [][\A c \in Conns :
            tasks'[c] # tasks[c] =>
                \/ /\ pc[c] = "recv" /\ pc'[c] = "gather"
                   /\ Len(tasks'[c]) = days'[c]
                   /\ \A k \in 1..Len(tasks'[c]) : ~tasks'[c][k].done
                \/ /\ pc'[c] = pc[c]
                   /\ Len(tasks'[c]) = Len(tasks[c])
                   /\ \E k \in 1..Len(tasks[c]) :
                         /\ ~tasks[c][k].done /\ tasks'[c][k].done
                         /\ \A j \in 1..Len(tasks[c]) :
                               j # k => tasks'[c][j] = tasks[c][j]]_vars

\* C12 witness: the handler of "exchange 2" waits in gather, the fetch of today
\* has ended and the fetch of yesterday, issued with it, is still running
C12_Witness ==
    \E c \in Conns :
        /\ pc[c] = "gather"
        /\ call[c].msg = Cmd(<<"2">>)
        /\ Len(tasks[c]) = 2
        /\ tasks[c][1].done /\ ~tasks[c][2].done

OneDayOfRates ==
    "[\n  {\n    \"01.03.2024\": {\n      \"USD\": {\n        \"sale\": 41,\n        \"purchase\": 40\n      },\n      \"EUR\": {\n        \"sale\": 45,\n        \"purchase\": null\n      }\n    }\n  }\n]"

OneDayError ==
    "[\n  {\n    \"error\": \"HTTP Error 404\"\n  }\n]"

\* what a one-day command sends for the upstream's answer to its only fetch
OneDayResponse(answer) ==
    IF answer.kind = "http" /\ answer.status = 200 THEN OneDayOfRates ELSE OneDayError

\* connection c handles its message as a command for one day, today: one fetch
\* for 1 March 2024 and USD, EUR; the response written and the audit message
\* are those of "exchange 1" for the answer the fetch got
HandledAsOneDay(c) ==
    /\ call[c].state \in {"running", "returned", "raised"}
    /\ pc[c] \notin {"send_error", "log_error"}
    /\ days[c] = 1
    /\ call[c].fetches = 1
    /\ Len(tasks[c]) = 1
    /\ tasks[c][1].date = [y |-> 2024, m |-> 3, d |-> 1]
    /\ tasks[c][1].currencies = <<"USD", "EUR">>
    /\ call[c].state = "raised" => FaultSlots(c) # {}
    /\ FaultSlots(c) # {} => call[c].sent = <<>> /\ call[c].state # "returned"
    /\ call[c].sent \in {<<>>, <<OneDayResponse(tasks[c][1].answer)>>}
    /\ call[c].logged \in {<<>>, <<AuditText(1, OneDayResponse(tasks[c][1].answer))>>}
    /\ call[c].sent # <<>> =>
          /\ Len(results[c]) = 1
          /\ results[c][1] = ExpectedSlot(1, tasks[c][1].answer)
    /\ call[c].state = "returned" =>
          /\ call[c].sent # <<>> /\ call[c].logged # <<>>
          /\ out[c][Len(out[c])] = OneDayResponse(tasks[c][1].answer)

\* C13: the message "exchange" is handled as "exchange 1" is: the day count is
\* 1, one fetch is issued, for today, and the response has one entry; what is
\* sent and logged is the same function of the upstream's answer for both.
C13_DefaultIsOneDay ==
    \A c \in Conns :
        call[c].msg \in {EXCHANGE, Cmd(<<"1">>)} => HandledAsOneDay(c)

\* C13 witness: "exchange" was answered with the one entry of 1 March 2024
C13_Witness ==
    \E c \in Conns :
        /\ call[c].msg = EXCHANGE
        /\ call[c].state = "returned"
        /\ out[c][Len(out[c])] = OneDayOfRates
        /\ call[c].logged = <<"exchange 1: " \o OneDayOfRates>>

\* how a message is to be treated, read off its text alone
ExpectedClass(message) ==
    IF ~HasExchangePrefix(message) THEN "ignored"
    ELSE IF message = Cmd(<<"a", "b", "c">>) THEN "fault"
    ELSE IF message \in {Cmd(<<"0">>), Cmd(<<"1", "1">>)} THEN "invalid"
    ELSE "valid"

\* the day count of a valid message of Messages
ExpectedDays(message) ==
    IF message = EXCHANGE \o <<"r", " ", "2">> THEN 2 ELSE AskedDays(message)

\* the response of a valid n-day command whose fetches got the answers kept in
\* connection c's tasks
ExpectedResponse(c, n) ==
    Serialized([i \in 1..n |-> ExpectedSlot(i, tasks[c][i].answer)])

\* the outcome of the latest message connection c has read is the one fixed
\* by the message, the date and the answers to its own fetches
OutcomeAsExpected(c) ==
        call[c].state \in {"ignored", "returned", "raised"} =>
            LET m == call[c].msg
                n == ExpectedDays(m)
                class == ExpectedClass(m)
            IN  /\ class = "ignored" =>
                      /\ call[c].state = "ignored"
                      /\ call[c].sent = <<>> /\ call[c].logged = <<>>
                      /\ call[c].fetches = 0
                /\ class = "fault" =>
                      /\ call[c].state = "raised"
                      /\ call[c].sent = <<>> /\ call[c].logged = <<>>
                      /\ call[c].fetches = 0
                /\ class = "invalid" =>
                      /\ call[c].state = "returned"
                      /\ call[c].sent = <<ValidationErrorText>>
                      /\ call[c].logged = <<ValidationErrorText>>
                      /\ call[c].fetches = 0
                      /\ out[c][Len(out[c])] = ValidationErrorText
                /\ class = "valid" =>
                      /\ call[c].fetches = n
                      /\ Len(tasks[c]) = n
                      /\ IF FaultSlots(c) # {}
                         THEN /\ call[c].state = "raised"
                              /\ call[c].sent = <<>> /\ call[c].logged = <<>>
                         ELSE /\ call[c].state = "returned"
                              /\ call[c].sent = <<ExpectedResponse(c, n)>>
                              /\ call[c].logged =
                                   <<AuditText(n, ExpectedResponse(c, n))>>
                              /\ out[c][Len(out[c])] = ExpectedResponse(c, n)
                              /\ \E i \in 1..Len(logfile) :
                                    logfile[i].text =
                                        EntryText(AuditText(n, ExpectedResponse(c, n)))

\* C14 as stated: the outcome of every message sent to the server is fixed by
\* the message, the date and the upstream's answers, so a message is left
\* without response and audit entry only if its own text makes it so.
C14_OutcomeOfEveryMessage ==
    \A c \in Conns :
        /\ OutcomeAsExpected(c)
        /\ \A i \in 1..Len(unread[c]) :
              ExpectedClass(unread[c][i]) \in {"ignored", "fault"}

\* C14: the outcome of a message the connection's loop reads is a function of
\* the message, the date and the answers the upstream gave to its own fetches:
\* whether it is ignored, ends in an exception or returns, what is sent and
\* what is logged are fixed by these alone, whatever was handled before on the
\* same connection or is handled on another one.  A message is never read
\* only on a connection whose loop an earlier message has ended.
C14_OutcomeOfMessageRead ==
    \A c \in Conns :
        /\ OutcomeAsExpected(c)
        /\ unread[c] # <<>> => pc[c] = "closed"

\* C14 witness: a connection that was sent the validation error for an earlier
\* message has answered "exchange" with the one entry of 1 March 2024
C14_Witness ==
    \E c \in Conns :
        /\ call[c].msg = EXCHANGE
        /\ call[c].state = "returned"
        /\ out[c] = <<ValidationErrorText, OneDayOfRates>>
        /\ Len(logfile) = 2

\* the audit message that belongs to the text sent for message m
ExpectedAudit(m, sent) ==
    IF sent = ValidationErrorText THEN sent
    ELSE AuditText(ExpectedDays(m), sent)

\* C15: an audit message is logged for a command only after its response was
\* sent, and it is made of exactly the text sent: the error text itself for a
\* validation error, "exchange <days>: " followed by the serialized response
\* for a valid command.  Every step that adds to the log file is the step of
\* a connection whose response is already out, and adds that entry.
C15_AuditAfterResponse ==
    /\ [](\A c \in Conns :
            call[c].logged # <<>> =>
                /\ Len(call[c].sent) = 1
                /\ out[c] # <<>> /\ out[c][Len(out[c])] = call[c].sent[1]
                /\ call[c].logged = <<ExpectedAudit(call[c].msg, call[c].sent[1])>>)
    /\ [][logfile' # logfile =>
            \E c \in Conns :
                /\ Len(call[c].sent) = 1 /\ call[c].logged = <<>>
                /\ out[c][Len(out[c])] = call[c].sent[1]
                /\ out'[c] = out[c]
                /\ Len(logfile') = Len(logfile) + 1
                /\ SubSeq(logfile', 1, Len(logfile)) = logfile
                /\ logfile'[Len(logfile')].text =
                      EntryText(ExpectedAudit(call[c].msg, call[c].sent[1]))
                /\ call'[c].logged = <<ExpectedAudit(call[c].msg, call[c].sent[1])>>]_vars

\* C15 witness: "exchange 2" was answered with two days of rates, and the
\* log's last entry is "exchange 2: " followed by that same text
C15_Witness ==
    \E c \in Conns :
        /\ call[c].msg = Cmd(<<"2">>)
        /\ call[c].sent = <<TwoDaysOfRates>>
        /\ call[c].logged = <<"exchange 2: " \o TwoDaysOfRates>>
        /\ logfile # <<>>
        /\ logfile[Len(logfile)].text = " - exchange 2: " \o TwoDaysOfRates \o "\n"

\* "exchange abc": the second token is not an integer
NotANumber == EXCHANGE \o <<" ", "a", "b", "c">>

\* C16: an exchange message whose second token is not an integer ends the
\* handler with an exception: nothing is sent for it, no fetch is issued and
\* no audit entry is written.  The step that receives it changes neither
\* what was sent on the connection, nor the log file, nor any fetch.
C16_ParseFault ==
    /\ [](\A c \in Conns :
            call[c].msg = NotANumber =>
                /\ call[c].state = "raised"
                /\ pc[c] = "closed"
                /\ call[c].sent = <<>>
                /\ call[c].logged = <<>>
                /\ call[c].fetches = 0)
    /\ [][\A c \in Conns :
            (call'[c] # call[c] /\ call'[c].msg = NotANumber) =>
                /\ out' = out
                /\ logfile' = logfile
                /\ tasks' = tasks
                /\ pc[c] = "recv" /\ pc'[c] = "closed"]_vars

\* C16 witness: a connection that had answered a command has received
\* "exchange abc": its handler raised, and the connection has got nothing
\* more and the log no further entry
C16_Witness ==
    \E c \in Conns :
        /\ call[c].msg = NotANumber
        /\ call[c].state = "raised"
        /\ pc[c] = "closed"
        /\ Len(out[c]) = 1
        /\ Len(logfile) = 1

\* every fetch of the command connection c is running has returned a result
AllFetchesReturned(c) ==
    /\ pc[c] = "gather"
    /\ DoneCount(c) = Len(tasks[c])
    /\ FaultSlots(c) = {}

\* the response of connection c's running command is out, its audit entry not
ResponseOut(c) == pc[c] = "log" /\ call[c].sent # <<>> /\ call[c].logged = <<>>

\* connection c's command has returned with response and audit entry
AuditDone(c) ==
    /\ call[c].state = "returned"
    /\ call[c].fetches > 0
    /\ call[c].sent # <<>> /\ call[c].logged # <<>>

\* C17: under fair scheduling, once every fetch of a valid command has
\* returned a result, the response is eventually sent, and once it is sent the
\* audit entry is eventually appended; and the response of a command is never
\* out while one of its fetches is still running.
C17_AnswersWhenFetchesEnd ==
    /\ \A c \in Conns : AllFetchesReturned(c) ~> ResponseOut(c)
    /\ \A c \in Conns : ResponseOut(c) ~> AuditDone(c)
    /\ [](\A c \in Conns :
            (call[c].fetches > 0 /\ (call[c].sent # <<>> \/ pc[c] \in {"send", "log"})) =>
                DoneCount(c) = Len(tasks[c]))

\* C17 witness: both fetches of "exchange 2" returned, the later day first,
\* and the command has sent its response and appended its audit entry
C17_Witness ==
    \E c \in Conns :
        /\ AuditDone(c)
        /\ call[c].fetches = 2
        /\ call[c].reordered
        /\ DoneCount(c) = 2

\* the requests of connection c's latest fan-out that have not ended
InFlight(c) == Len(tasks[c]) - DoneCount(c)

RECURSIVE TotalInFlight(_)
TotalInFlight(S) ==
    IF S = {} THEN 0
    ELSE LET c == CHOOSE x \in S : TRUE IN InFlight(c) + TotalInFlight(S \ {c})

\* C18: the requests in flight for one command are never more than the day
\* count it asked for, which is between 1 and 10; a command that asked for a
\* count outside 1..10 has none; so no connection has more than 10 in flight.
C18_InFlightPerCommand ==
    \A c \in Conns :
        /\ InFlight(c) <= 10
        /\ call[c].fetches > 0 =>
              /\ ExpectedDays(call[c].msg) \in 1..10
              /\ InFlight(c) <= ExpectedDays(call[c].msg)
              /\ Len(tasks[c]) = ExpectedDays(call[c].msg)
        /\ call[c].fetches = 0 => InFlight(c) = 0

\* C18 witness: two connections wait in gather with 6 requests in flight each,
\* 12 in all, more than any single command may have
C18_Witness ==
    /\ \A c \in Conns : pc[c] = "gather" /\ InFlight(c) = 6
    /\ TotalInFlight(Conns) > 10

\* connection c's handler is inside handle_exchange
InProgress(c) == pc[c] \in {"send_error", "log_error", "gather", "send", "log"}

\* the latest command of connection c is over: it returned, after its response
\* went out and its audit entry was appended, or the message was not a command
Finished(c) ==
    \/ call[c].state \in {"none", "ignored"}
    \/ /\ call[c].state = "returned"
       /\ Len(call[c].sent) = 1 /\ Len(call[c].logged) = 1
       /\ out[c] # <<>> /\ out[c][Len(out[c])] = call[c].sent[1]
       /\ \E i \in 1..Len(logfile) :
             logfile[i].text = EntryText(call[c].logged[1])

\* C19: a connection handles one command at a time.  Its handler is inside
\* handle_exchange exactly while its latest command is running; a message is
\* read on a connection only when the command before it is over, response
\* sent and audit entry appended; and what is sent on a connection is only
\* ever extended, at its end, by the response of the command then running, so
\* the responses are in the order of the commands.
C19_OneCommandAtATime ==
    /\ [](\A c \in Conns : InProgress(c) <=> call[c].state = "running")
    /\ [][\A c \in Conns :
            (delivered' # delivered /\ call'[c] # call[c]) =>
                /\ pc[c] = "recv"
                /\ Finished(c)
                /\ out'[c] = out[c]
                /\ logfile' = logfile]_vars
    /\ [][\A c \in Conns :
            out'[c] # out[c] =>
                /\ call[c].state = "running" /\ call[c].sent = <<>>
                /\ call'[c].msg = call[c].msg
                /\ Len(call'[c].sent) = 1
                /\ out'[c] = Append(out[c], call'[c].sent[1])
                /\ delivered' = delivered]_vars

\* C19 witness: a connection has answered "exchange 2" and, after that, been
\* sent the validation error for "exchange 0": two responses and two audit
\* entries, in the order of the commands
C19_Witness ==
    \E c \in Conns :
        /\ call[c].msg = Cmd(<<"0">>)
        /\ call[c].state = "returned"
        /\ out[c] = <<TwoDaysOfRates, ValidationErrorText>>
        /\ Len(logfile) = 2
        /\ logfile[1].text = " - exchange 2: " \o TwoDaysOfRates \o "\n"
        /\ logfile[2].text = " - " \o ValidationErrorText \o "\n"

\* the handler of connection d can take its next step
CanGoOn(d) ==
    /\ (pc[d] = "recv" /\ delivered < MaxMsgs) => ENABLED fan_out(d)
    /\ pc[d] = "send_error" => ENABLED send_error(d)
    /\ pc[d] = "log_error" => ENABLED log_error(d)
    /\ pc[d] = "send" => ENABLED send_response(d)
    /\ pc[d] = "log" => ENABLED log_response(d)
    /\ (pc[d] = "gather" /\ DoneCount(d) < Len(tasks[d])) => ENABLED fetch_done(d)

\* C20: a command that ends in an exception ends its connection's loop, and
\* only such a command does: it had a second token that is not an integer, or
\* one of its fetches ended in a transport fault.  From then on the connection
\* reads no message, is sent nothing and gets no audit entry, whatever is sent
\* to it; the messages left unread are those of ended loops.  The handlers of
\* the other connections can still take their steps.
C20_FaultEndsConnection ==
    /\ [](\A c \in Conns :
            /\ pc[c] = "closed" <=> call[c].state = "raised"
            /\ pc[c] = "closed" =>
                  /\ call[c].msg = NotANumber \/ FaultSlots(c) # {}
                  /\ call[c].sent = <<>> /\ call[c].logged = <<>>
                  /\ \A d \in Conns \ {c} : CanGoOn(d)
            /\ unread[c] # <<>> => pc[c] = "closed")
    /\ [][\A c \in Conns :
            pc[c] = "closed" =>
                /\ pc'[c] = "closed"
                /\ call'[c] = call[c]
                /\ out'[c] = out[c]
                /\ logfile' # logfile => \E d \in Conns \ {c} : call'[d].logged # call[d].logged
                /\ unread'[c] # unread[c] =>
                      /\ delivered' = delivered + 1
                      /\ out' = out /\ logfile' = logfile /\ tasks' = tasks]_vars

\* C20 witness: the loop of a connection ended with a transport fault of a
\* fetch, and "exchange 1" sent to it afterwards is left unread: nothing was
\* sent on the connection and nothing logged
C20_Witness ==
    \E c \in Conns :
        /\ pc[c] = "closed"
        /\ FaultSlots(c) # {}
        /\ unread[c] = <<Cmd(<<"1">>)>>
        /\ out[c] = <<>>
        /\ logfile = <<>>

====
